---- MODULE Spec2Model ----
(***************************************************************************)
(* ProxyForge print-layout engine: pdf_gen.build_pdf and its helpers, and  *)
(* the /api/pdf route of main.py that calls it.                            *)
(*                                                                         *)
(* An image buffer is modelled by what the code can observe of it:         *)
(*   "None"    the Python value None                                       *)
(*   "empty"   the empty bytes object b"" (falsy, and it does not decode)  *)
(*   "corrupt" non-empty bytes that PIL cannot decode                      *)
(*   "img"     non-empty bytes that decode to a raster                     *)
(* A page canvas is the set of registration rectangles drawn on it, the    *)
(* footer label and the ordered list of rectangles pasted onto it.         *)
(* Rectangles are inclusive pixel ranges [x0, y0, x1, y1].                 *)
(***************************************************************************)
EXTENDS Integers, Sequences, FiniteSets, TLC

\* ---- bounds of the model ------------------------------------------------
MaxN == 17
PatLen == 2
MaxDeck == 3
IndexSpan == 8

\* ---- pdf_gen.py constants -----------------------------------------------
PPI == 300
PAGE_W_PX == 3300
PAGE_H_PX == 2550
CARD_W_PX == 744
CARD_H_PX == 1039
COLS == 4
ROWS == 2
CARDS_PER_PAGE == COLS * ROWS
REG_INSET_PX == 112
REG_SIZE_PX == 188
REG_THICK_PX == 12
GRID_X == 150
GRID_Y == 224
CARD_GAP_X == 754
CARD_GAP_Y == 1076
DefaultExtendCorners == 10
DefaultQuality == 90

VARIABLES
    caller,          \* "api_pdf" | "direct" | "slot": who runs the engine
    front_list,      \* api_pdf: fetch_all_cards' front_list
    back_list,       \* api_pdf: fetch_all_cards' back_list
    upload,          \* api_pdf: bytes of the uploaded generic back
    front_images,    \* build_pdf argument
    back_images,     \* build_pdf argument
    generic_back,    \* build_pdf argument
    extend_corners,  \* build_pdf argument
    pc,              \* position in api_pdf / build_pdf
    page_num,        \* build_pdf: outer loop variable
    i,               \* build_pdf: inner loop variable (-1: loop not entered)
    mirrored_i,      \* build_pdf: local of the back loop
    xy,              \* build_pdf: locals x, y
    front_pg,        \* build_pdf: canvas of the current front page
    back_pg,         \* build_pdf: canvas of the current back page
    jpeg_pages,      \* build_pdf: pages emitted so far
    result           \* what the entry point returned or raised

vars == <<caller, front_list, back_list, upload, front_images, back_images,
          generic_back, extend_corners, pc, page_num, i, mirrored_i, xy,
          front_pg, back_pg, jpeg_pages, result>>

\* ---- buffers -------------------------------------------------------------
None == "None"

\* Python truthiness of `bytes | None`
Truthy(b) == b \notin {None, "empty"}

\* Image.open(BytesIO(b)).convert("RGB") succeeds
Decodes(b) == b = "img"

Min(a, b) == IF a < b THEN a ELSE b

\* ---- canvas --------------------------------------------------------------
Rect(x0, y0, x1, y1) == [x0 |-> x0, y0 |-> y0, x1 |-> x1, y1 |-> y1]

NoLabel == [page |-> 0, side |-> "none"]

\* _new_page(): blank white canvas
NewPage == [marks |-> {}, label |-> NoLabel, pastes |-> <<>>]

\* the five rectangles _draw_reg_marks draws
RegSquare == Rect(REG_INSET_PX, REG_INSET_PX,
                  REG_INSET_PX + REG_SIZE_PX, REG_INSET_PX + REG_SIZE_PX)

RegTopRight ==
    LET tr_x == PAGE_W_PX - REG_INSET_PX - REG_SIZE_PX
        tr_y == REG_INSET_PX
    IN  { Rect(tr_x, tr_y, tr_x + REG_SIZE_PX, tr_y + REG_THICK_PX),
          Rect(tr_x + REG_SIZE_PX - REG_THICK_PX, tr_y,
               tr_x + REG_SIZE_PX, tr_y + REG_SIZE_PX) }

RegBottomLeft ==
    LET bl_x == REG_INSET_PX
        bl_y == PAGE_H_PX - REG_INSET_PX - REG_SIZE_PX
    IN  { Rect(bl_x, bl_y + REG_SIZE_PX - REG_THICK_PX,
               bl_x + REG_SIZE_PX, bl_y + REG_SIZE_PX),
          Rect(bl_x, bl_y, bl_x + REG_THICK_PX, bl_y + REG_SIZE_PX) }

RegMarks == {RegSquare} \cup RegTopRight \cup RegBottomLeft

DrawRegMarks(page) == [page EXCEPT !.marks = RegMarks]

\* _add_label(page, f"ProxyForge | Page {n} {side} | ...")
AddLabel(page, n, side) == [page EXCEPT !.label = [page |-> n, side |-> side]]

\* _page_to_jpeg(page, quality)
PageToJpeg(page, quality) ==
    [format |-> "JPEG", quality |-> quality, dpi |-> PPI, image |-> page]

\* ---- geometry ------------------------------------------------------------
CardTopLeft(index) ==
    LET col == index % COLS
        row == index \div COLS
    IN  <<GRID_X + col * CARD_GAP_X, GRID_Y + row * CARD_GAP_Y>>

\* a slip in the mirrored column: COLS - col instead of COLS - 1 - col
MirroredIndexOffByOne(idx) ==
    LET col == idx % COLS
        row == idx \div COLS
        mirrored_col == COLS - col
    IN  row * COLS + mirrored_col

MirroredIndex(idx) ==
    LET col == idx % COLS
        row == idx \div COLS
        mirrored_col == COLS - 1 - col
    IN  row * COLS + mirrored_col

\* ---- _place_card ---------------------------------------------------------
\* tag = [card |-> global card index, src |-> "front" | "back" | "generic"]
\* records which buffer the caller handed over; it does not influence the
\* rectangle.
Pasted(tag, what, x, y, w, h) ==
    [card |-> tag.card, src |-> tag.src, what |-> what,
     x |-> x, y |-> y, w |-> w, h |-> h]

\* a slip: the placeholder goes through the bleed offset like an image
PlaceCardShiftedPlaceholder(page, img_bytes, x, y, ec, tag) ==
    IF ~Decodes(img_bytes)
    THEN IF ec > 0
         THEN [page EXCEPT !.pastes =
                  Append(@, Pasted(tag, "placeholder", x - ec, y - ec,
                                   CARD_W_PX, CARD_H_PX))]
         ELSE [page EXCEPT !.pastes =
                  Append(@, Pasted(tag, "placeholder", x, y,
                                   CARD_W_PX, CARD_H_PX))]
    ELSE IF ec > 0
         THEN [page EXCEPT !.pastes =
                  Append(@, Pasted(tag, "image", x - ec, y - ec,
                                   CARD_W_PX + ec * 2, CARD_H_PX + ec * 2))]
         ELSE [page EXCEPT !.pastes =
                  Append(@, Pasted(tag, "image", x, y, CARD_W_PX, CARD_H_PX))]

\* a slip: the image grows by ec in total instead of ec on every side
PlaceCardHalfBleed(page, img_bytes, x, y, ec, tag) ==
    IF ~Decodes(img_bytes)
    THEN [page EXCEPT !.pastes =
             Append(@, Pasted(tag, "placeholder", x, y, CARD_W_PX, CARD_H_PX))]
    ELSE IF ec > 0
         THEN [page EXCEPT !.pastes =
                  Append(@, Pasted(tag, "image", x - ec, y - ec,
                                   CARD_W_PX + ec, CARD_H_PX + ec))]
         ELSE [page EXCEPT !.pastes =
                  Append(@, Pasted(tag, "image", x, y, CARD_W_PX, CARD_H_PX))]

PlaceCard(page, img_bytes, x, y, ec, tag) ==
    IF ~Decodes(img_bytes)
    THEN [page EXCEPT !.pastes =
             Append(@, Pasted(tag, "placeholder", x, y, CARD_W_PX, CARD_H_PX))]
    ELSE IF ec > 0
         THEN [page EXCEPT !.pastes =
                  Append(@, Pasted(tag, "image", x - ec, y - ec,
                                   CARD_W_PX + ec * 2, CARD_H_PX + ec * 2))]
         ELSE [page EXCEPT !.pastes =
                  Append(@, Pasted(tag, "image", x, y, CARD_W_PX, CARD_H_PX))]

\* ---- build_pdf locals ----------------------------------------------------
Total == Len(front_images)

\* a slip: floor instead of ceiling
NumPagesFloor(total) == total \div CARDS_PER_PAGE

NumPages(total) == (total + CARDS_PER_PAGE - 1) \div CARDS_PER_PAGE

\* a slip: pages advance by a row of cards instead of a page of cards
StartByCols(p) == p * COLS

Start(p) == p * CARDS_PER_PAGE

End(p, total) == Min(Start(p) + CARDS_PER_PAGE, total)

Slots(p, total) == End(p, total) - Start(p)

\* back_images[start + i] if back_images and back_images[start + i] is not
\* None else generic_back          (sequences are 1-based, the code 0-based)
UsesCardBack(backs, k) == Len(backs) > 0 /\ backs[k + 1] # None

BackBytes(backs, generic, k) ==
    IF UsesCardBack(backs, k) THEN backs[k + 1] ELSE generic

\* img2pdf.convert(jpeg_pages, layout_fun=layout)
Img2PdfRejects(pages) == Len(pages) = 0


\* ---- inputs --------------------------------------------------------------
FrontKinds == {"img", "corrupt"}
BackKinds == {None, "empty", "img"}
GenericKinds == {None, "empty", "img"}
EcSet == {0, DefaultExtendCorners}

\* what fetch_all_cards can append for one card: (front, back); a failed
\* card is (None, None), a front is never empty (`if not front_b`)
FetchOutcomes == {<<None, None>>, <<"img", None>>, <<"corrupt", None>>,
                  <<"img", "empty">>, <<"img", "img">>}

\* a list of n buffers whose kinds repeat with period PatLen
Periodic(n, pat) == [j \in 1..n |-> pat[(j - 1) % PatLen]]

Idle ==
    /\ page_num = -1
    /\ i = -1
    /\ mirrored_i = -1
    /\ xy = <<0, 0>>
    /\ front_pg = NewPage
    /\ back_pg = NewPage
    /\ jpeg_pages = <<>>
    /\ result = "none"

\* build_pdf called as a library function
InitDirect ==
    \E n \in 0..MaxN, fp \in [0..(PatLen - 1) -> FrontKinds],
       bp \in [0..(PatLen - 1) -> BackKinds], withBacks \in BOOLEAN,
       g \in GenericKinds, ec \in EcSet :
        /\ caller = "direct"
        /\ front_list = <<>>
        /\ back_list = <<>>
        /\ upload = None
        /\ front_images = Periodic(n, fp)
        /\ back_images = IF withBacks THEN Periodic(n, bp) ELSE <<>>
        /\ generic_back = g
        /\ extend_corners = ec
        /\ pc = "build_pdf"
        /\ Idle

\* POST /api/pdf, after fetch_all_cards has produced its lists
InitApi ==
    \E n \in 0..MaxDeck, g \in GenericKinds, ec \in EcSet :
      \E cards \in [1..n -> FetchOutcomes] :
        /\ caller = "api_pdf"
        /\ front_list = [j \in 1..n |-> cards[j][1]]
        /\ back_list = [j \in 1..n |-> cards[j][2]]
        /\ upload = g
        /\ front_images = <<>>
        /\ back_images = <<>>
        /\ generic_back = None
        /\ extend_corners = ec
        /\ pc = "api_pdf"
        /\ Idle

Init == InitDirect \/ InitApi

\* ---- api_pdf -------------------------------------------------------------
RECURSIVE KeptFronts(_)
KeptFronts(fl) ==
    IF fl = <<>> THEN <<>>
    ELSE (IF Head(fl) # None THEN <<Head(fl)>> ELSE <<>>) \o KeptFronts(Tail(fl))

RECURSIVE KeptBacks(_, _)
KeptBacks(fl, bl) ==
    IF fl = <<>> \/ bl = <<>> THEN <<>>
    ELSE (IF Head(fl) # None THEN <<Head(bl)>> ELSE <<>>)
         \o KeptBacks(Tail(fl), Tail(bl))

\* a slip: `if fronts is None`, which is never true of a list
NoFrontsIsNone(fronts) == FALSE

\* `if not fronts: raise HTTPException(400, ...)`
NoFronts(fronts) == Len(fronts) = 0

\* fetch_all_cards raised (no card parsed) or no front survived the filter
ApiPdfReject ==
    /\ pc = "api_pdf"
    /\ Len(front_list) = 0 \/ NoFronts(KeptFronts(front_list))
    /\ pc' = "done"
    /\ result' = "HTTP400"
    /\ UNCHANGED <<caller, front_list, back_list, upload, front_images,
                   back_images, generic_back, extend_corners, page_num, i,
                   mirrored_i, xy, front_pg, back_pg, jpeg_pages>>

ApiPdfCall ==
    /\ pc = "api_pdf"
    /\ Len(front_list) > 0
    /\ ~NoFronts(KeptFronts(front_list))
    /\ front_images' = KeptFronts(front_list)
    /\ back_images' = KeptBacks(front_list, back_list)
    /\ generic_back' = upload
    /\ pc' = "build_pdf"
    /\ UNCHANGED <<caller, front_list, back_list, upload, extend_corners,
                   page_num, i, mirrored_i, xy, front_pg, back_pg, jpeg_pages,
                   result>>

\* ---- build_pdf -----------------------------------------------------------
BuildPdfStart ==
    /\ pc = "build_pdf"
    /\ jpeg_pages' = <<>>
    /\ page_num' = -1
    /\ pc' = "page_loop"
    /\ UNCHANGED <<caller, front_list, back_list, upload, front_images,
                   back_images, generic_back, extend_corners, i, mirrored_i,
                   xy, front_pg, back_pg, result>>

\* for page_num in range(num_pages): next iteration, up to the front loop
NextPage ==
    /\ pc = "page_loop"
    /\ page_num + 1 < NumPages(Total)
    /\ page_num' = page_num + 1
    /\ front_pg' = DrawRegMarks(NewPage)
    /\ i' = -1
    /\ pc' = "front"
    /\ UNCHANGED <<caller, front_list, back_list, upload, front_images,
                   back_images, generic_back, extend_corners, mirrored_i, xy,
                   back_pg, jpeg_pages, result>>

\* one iteration of the front loop
FrontSlot ==
    /\ pc = "front"
    /\ i + 1 < Slots(page_num, Total)
    /\ i' = i + 1
    /\ xy' = CardTopLeft(i')
    /\ front_pg' = PlaceCard(front_pg, front_images[Start(page_num) + i' + 1],
                             xy'[1], xy'[2], extend_corners,
                             [card |-> Start(page_num) + i', src |-> "front"])
    /\ UNCHANGED <<caller, front_list, back_list, upload, front_images,
                   back_images, generic_back, extend_corners, pc, page_num,
                   mirrored_i, back_pg, jpeg_pages, result>>

\* front loop exhausted: label and emit the front page, start the back page
EmitFront ==
    /\ pc = "front"
    /\ i + 1 >= Slots(page_num, Total)
    /\ front_pg' = AddLabel(front_pg, page_num + 1, "front")
    /\ jpeg_pages' = Append(jpeg_pages, PageToJpeg(front_pg', DefaultQuality))
    /\ back_pg' = DrawRegMarks(NewPage)
    /\ i' = -1
    /\ pc' = "back"
    /\ UNCHANGED <<caller, front_list, back_list, upload, front_images,
                   back_images, generic_back, extend_corners, page_num,
                   mirrored_i, xy, result>>

\* one iteration of the back loop
BackSlot ==
    /\ pc = "back"
    /\ i + 1 < Slots(page_num, Total)
    /\ i' = i + 1
    /\ mirrored_i' = MirroredIndex(i')
    /\ LET k == Start(page_num) + i'
           back_bytes == BackBytes(back_images, generic_back, k)
           src == IF UsesCardBack(back_images, k) THEN "back" ELSE "generic"
       IN  IF Truthy(back_bytes)
           THEN /\ xy' = CardTopLeft(mirrored_i')
                /\ back_pg' = PlaceCard(back_pg, back_bytes, xy'[1], xy'[2],
                                        extend_corners,
                                        [card |-> k, src |-> src])
           ELSE UNCHANGED <<xy, back_pg>>
    /\ UNCHANGED <<caller, front_list, back_list, upload, front_images,
                   back_images, generic_back, extend_corners, pc, page_num,
                   front_pg, jpeg_pages, result>>

\* back loop exhausted: label and emit the back page
EmitBack ==
    /\ pc = "back"
    /\ i + 1 >= Slots(page_num, Total)
    /\ back_pg' = AddLabel(back_pg, page_num + 1, "back")
    /\ jpeg_pages' = Append(jpeg_pages, PageToJpeg(back_pg', DefaultQuality))
    /\ pc' = "page_loop"
    /\ UNCHANGED <<caller, front_list, back_list, upload, front_images,
                   back_images, generic_back, extend_corners, page_num, i,
                   mirrored_i, xy, front_pg, result>>

\* page loop exhausted
PagesDone ==
    /\ pc = "page_loop"
    /\ page_num + 1 >= NumPages(Total)
    /\ pc' = "pack"
    /\ UNCHANGED <<caller, front_list, back_list, upload, front_images,
                   back_images, generic_back, extend_corners, page_num, i,
                   mirrored_i, xy, front_pg, back_pg, jpeg_pages, result>>

\* img2pdf.convert returns the document
PackOk ==
    /\ pc = "pack"
    /\ ~Img2PdfRejects(jpeg_pages)
    /\ result' = "pdf"
    /\ pc' = "done"
    /\ UNCHANGED <<caller, front_list, back_list, upload, front_images,
                   back_images, generic_back, extend_corners, page_num, i,
                   mirrored_i, xy, front_pg, back_pg, jpeg_pages>>

\* img2pdf.convert raises on an empty page list
PackFail ==
    /\ pc = "pack"
    /\ Img2PdfRejects(jpeg_pages)
    /\ result' = "PackingFailure"
    /\ pc' = "done"
    /\ UNCHANGED <<caller, front_list, back_list, upload, front_images,
                   back_images, generic_back, extend_corners, page_num, i,
                   mirrored_i, xy, front_pg, back_pg, jpeg_pages>>

Next ==
    \/ ApiPdfReject
    \/ ApiPdfCall
    \/ BuildPdfStart
    \/ NextPage
    \/ FrontSlot
    \/ EmitFront
    \/ BackSlot
    \/ EmitBack
    \/ PagesDone
    \/ PackOk
    \/ PackFail

Spec == Init /\ [][Next]_vars


\* ---- one call of the slot functions on an arbitrary index ----------------
SlotIndices == (0 - IndexSpan)..(CARDS_PER_PAGE - 1 + IndexSpan)
SlotEcSet == {-1, 0, 1, DefaultExtendCorners}

SlotInit ==
    \E index \in SlotIndices, ec \in SlotEcSet, b \in FrontKinds :
        /\ caller = "slot"
        /\ front_list = <<>>
        /\ back_list = <<>>
        /\ upload = None
        /\ front_images = <<b>>
        /\ back_images = <<>>
        /\ generic_back = None
        /\ extend_corners = ec
        /\ pc = "slot_call"
        /\ page_num = -1
        /\ i = index
        /\ mirrored_i = -1
        /\ xy = <<0, 0>>
        /\ front_pg = DrawRegMarks(NewPage)
        /\ back_pg = NewPage
        /\ jpeg_pages = <<>>
        /\ result = "none"

\* x, y = _card_top_left(i): the function has no raise statement
SlotTopLeft ==
    /\ pc = "slot_call"
    /\ xy' = CardTopLeft(i)
    /\ pc' = "slot_xy"
    /\ UNCHANGED <<caller, front_list, back_list, upload, front_images,
                   back_images, generic_back, extend_corners, page_num, i,
                   mirrored_i, front_pg, back_pg, jpeg_pages, result>>

\* _place_card(page, img, x, y, extend_corners)
SlotPlace ==
    /\ pc = "slot_xy"
    /\ front_pg' = PlaceCard(front_pg, front_images[1], xy[1], xy[2],
                             extend_corners, [card |-> i, src |-> "front"])
    /\ pc' = "slot_done"
    /\ UNCHANGED <<caller, front_list, back_list, upload, front_images,
                   back_images, generic_back, extend_corners, page_num, i,
                   mirrored_i, xy, back_pg, jpeg_pages, result>>

SlotNext == SlotTopLeft \/ SlotPlace

SpecSlot == SlotInit /\ [][SlotNext]_vars

\* ==== properties ==========================================================
K == COLS * ROWS

\* ceil(n / k), stated without the code's rounding trick
CeilDiv(n, k) == CHOOSE c \in 0..n : c * k >= n /\ (c - 1) * k < n

\* every canvas that exists: the emitted pages by output position, and the
\* page under construction
Emitted ==
    { [sheet |-> (idx - 1) \div 2,
       side  |-> IF idx % 2 = 1 THEN "front" ELSE "back",
       page  |-> jpeg_pages[idx].image] : idx \in 1..Len(jpeg_pages) }

Canvases ==
    Emitted
    \cup (IF pc = "front"
          THEN {[sheet |-> page_num, side |-> "front", page |-> front_pg]}
          ELSE {})
    \cup (IF pc = "back"
          THEN {[sheet |-> page_num, side |-> "back", page |-> back_pg]}
          ELSE {})

PastesOf(c) == {c.page.pastes[t] : t \in 1..Len(c.page.pastes)}

\* the slot a card must occupy on a canvas, and that slot's coordinate
LocalIndex(c, paste) == paste.card - c.sheet * K

ExpectedSlot(c, paste) ==
    LET l == LocalIndex(c, paste)
    IN  IF c.side = "front" THEN l
        ELSE (l \div COLS) * COLS + (COLS - 1 - (l % COLS))

SlotXY(s) == <<GRID_X + (s % COLS) * CARD_GAP_X,
               GRID_Y + (s \div COLS) * CARD_GAP_Y>>

Finished == pc = "done" /\ result # "HTTP400"

BackJustPlaced ==
    /\ pc = "back"
    /\ i >= 0
    /\ Len(back_pg.pastes) > 0
    /\ back_pg.pastes[Len(back_pg.pastes)].card = Start(page_num) + i

\* C2 (as claimed): after BackSlot has placed the back of local slot i at
\* slot mirrored_i, reflecting that slot's rectangle about x = PAGE_W_PX/2
\* gives the rectangle of front slot i.
C2_FlipAligned ==
    BackJustPlaced =>
        /\ xy = CardTopLeft(mirrored_i)
        /\ PAGE_W_PX - (xy[1] + CARD_W_PX) = CardTopLeft(i)[1]
        /\ xy[2] = CardTopLeft(i)[2]

\* C3: the back placement index is row*COLS + (COLS-1-col); applied twice it
\* gives i back, it keeps the row of i and stays inside [0, K); it maps 0 to 3
\* and 5 to 6.
C3_Mirror ==
    (pc = "back" /\ i >= 0) =>
        /\ i \in 0..(K - 1)
        /\ mirrored_i = (i \div COLS) * COLS + (COLS - 1 - (i % COLS))
        /\ MirroredIndex(mirrored_i) = i
        /\ mirrored_i \div COLS = i \div COLS
        /\ mirrored_i \in 0..(K - 1)
        /\ (i = 0 => mirrored_i = 3)
        /\ (i = 5 => mirrored_i = 6)

C3_Witness == pc = "back" /\ i = 5 /\ mirrored_i = 6 /\ page_num = 1

\* the per-card back of card k, and where it was pasted on the back page
PerCardBack(k) == IF Len(back_images) = 0 THEN None ELSE back_images[k + 1]

BackPastesFor(k) ==
    {t \in 1..Len(back_pg.pastes) : back_pg.pastes[t].card = k}

\* C4 (as claimed): once the back loop has handled local slot i, the back of
\* that card is drawn from the per-card back if one is present, otherwise
\* from the generic back if one was supplied, otherwise nothing is drawn.
\* An empty buffer may be read as present or as absent; the statement accepts
\* both readings and only asks for what both agree on.
C4_BackSource ==
    /\ (pc = "back" /\ i >= 0) =>
        LET k == Start(page_num) + i
            per == PerCardBack(k)
            drawn == {back_pg.pastes[t].src : t \in BackPastesFor(k)}
        IN  /\ Cardinality(BackPastesFor(k)) <= 1
            /\ Truthy(per) => drawn = {"back"}
            /\ (per = None /\ Truthy(generic_back)) => drawn = {"generic"}
            /\ (per = None /\ generic_back = None) => drawn = {}
            /\ (per = "empty" /\ Truthy(generic_back)) => drawn # {}
    /\ \A c \in Emitted :
          c.side = "back" => c.page.marks = RegMarks /\ c.page.label.side = "back"

\* C5: a buffer that does not decode is pasted as a placeholder of exactly
\* CARD_W_PX x CARD_H_PX at the slot's own coordinate whatever the bleed; no
\* error reaches the caller, every other card is still placed and the number
\* of pages is the one a decodable buffer gives.
C5_Placeholder ==
    /\ \A c \in Canvases : \A q \in PastesOf(c) :
          /\ (q.src = "front") =>
                ((q.what = "placeholder") <=> ~Decodes(front_images[q.card + 1]))
          /\ (q.what = "placeholder") =>
                /\ q.w = CARD_W_PX
                /\ q.h = CARD_H_PX
                /\ <<q.x, q.y>> = SlotXY(ExpectedSlot(c, q))
    /\ (pc \in {"build_pdf", "page_loop", "front", "back", "pack"})
          => result = "none"
    /\ (Finished /\ Total >= 1) =>
          /\ result = "pdf"
          /\ Len(jpeg_pages) = 2 * CeilDiv(Total, K)
          /\ \A c \in Emitted :
                c.side = "front" =>
                   Len(c.page.pastes) = Min(K, Total - c.sheet * K)

C5_Witness ==
    /\ Finished
    /\ extend_corners = DefaultExtendCorners
    /\ Total = K + 1
    /\ jpeg_pages[1].image.pastes[1].what = "placeholder"
    /\ jpeg_pages[1].image.pastes[2].what = "image"
    /\ jpeg_pages[3].image.pastes[1].what = "placeholder"
    /\ Len(jpeg_pages) = 4

\* C6: a decoded image is pasted as (CARD_W_PX+2ec) x (CARD_H_PX+2ec) at
\* (x-ec, y-ec) when ec > 0 (764x1059 for ec = 10) and as CARD_W_PX x
\* CARD_H_PX at (x, y) when ec = 0, (x, y) being the slot's coordinate.
C6_Bleed ==
    \A c \in Canvases : \A q \in PastesOf(c) :
        (q.what = "image") =>
            LET sxy == SlotXY(ExpectedSlot(c, q))
                ec == extend_corners
            IN  /\ ec > 0 => /\ q.w = CARD_W_PX + 2 * ec
                             /\ q.h = CARD_H_PX + 2 * ec
                             /\ q.x = sxy[1] - ec
                             /\ q.y = sxy[2] - ec
                /\ ec = 10 => q.w = 764 /\ q.h = 1059
                /\ ec = 0 => /\ q.w = CARD_W_PX
                             /\ q.h = CARD_H_PX
                             /\ q.x = sxy[1]
                             /\ q.y = sxy[2]

C6_Witness ==
    /\ pc = "back"
    /\ extend_corners = 10
    /\ \E t \in 1..Len(back_pg.pastes) :
          /\ back_pg.pastes[t].what = "image"
          /\ back_pg.pastes[t].w = 764
          /\ back_pg.pastes[t].h = 1059
          /\ back_pg.pastes[t].x = GRID_X + 3 * CARD_GAP_X - 10
    /\ jpeg_pages[1].image.pastes[1].what = "image"
    /\ jpeg_pages[1].image.pastes[1].x = GRID_X - 10


\* build_pdf has been entered; the fetch produced no front at all
BuildPdfCalled ==
    \/ pc \in {"build_pdf", "page_loop", "front", "back", "pack"}
    \/ result \in {"pdf", "PackingFailure"}

NoFrontFetched == \A j \in 1..Len(front_list) : front_list[j] = None

\* C7: build_pdf on an empty front list ends in an error and returns no
\* document; api_pdf answers with its 'no cards' error, without calling
\* build_pdf, whenever the fetch produced no front, so it only ever calls
\* build_pdf with at least one front and never meets the packing failure.
C7_RejectsEmpty ==
    /\ (BuildPdfCalled /\ Total = 0) =>
          /\ result # "pdf"
          /\ pc = "done" => result = "PackingFailure"
    /\ caller = "api_pdf" =>
          /\ result # "PackingFailure"
          /\ BuildPdfCalled =>
                /\ Total >= 1
                /\ ~NoFrontFetched
                /\ \A j \in 1..Total : front_images[j] # None
          /\ (pc # "api_pdf" /\ NoFrontFetched) =>
                /\ pc = "done"
                /\ result = "HTTP400"
                /\ jpeg_pages = <<>>

C7_Witness ==
    /\ caller = "api_pdf"
    /\ Len(front_list) >= 2
    /\ NoFrontFetched
    /\ pc = "done"
    /\ result = "HTTP400"

\* C8 (as claimed): _card_top_left signals an error for an index outside
\* [0, CARDS_PER_PAGE) instead of returning a coordinate, and returns
\* (GRID_X + (i mod COLS)*CARD_GAP_X, GRID_Y + (i div COLS)*CARD_GAP_Y) for an
\* index inside it.
C8_RejectsOutOfRange ==
    (caller = "slot" /\ pc # "slot_call") =>
        IF i \in 0..(CARDS_PER_PAGE - 1)
        THEN /\ xy = SlotXY(i)
             /\ result = "none"
        ELSE /\ result # "none"
             /\ xy = <<0, 0>>
             /\ pc # "slot_done"

FrontCanvases == {c \in Canvases : c.side = "front"}

\* the top-left corner of the slot a pasted rectangle belongs to: an image
\* pasted with bleed starts extend_corners before it
NominalXY(q) ==
    IF q.what = "image" /\ extend_corners > 0
    THEN <<q.x + extend_corners, q.y + extend_corners>>
    ELSE <<q.x, q.y>>

PasteRect(q) == Rect(q.x, q.y, q.x + q.w - 1, q.y + q.h - 1)

Intersects(a, b) ==
    /\ a.x0 <= b.x1
    /\ b.x0 <= a.x1
    /\ a.y0 <= b.y1
    /\ b.y0 <= a.y1

\* C10 (as claimed): no rectangle a card image or placeholder is pasted into
\* intersects a registration mark of its page.
C10_MarksIntact ==
    \A c \in Canvases :
        /\ c.page.marks = RegMarks
        /\ \A q \in PastesOf(c) : \A m \in c.page.marks :
              ~Intersects(PasteRect(q), m)

====
